---------------------------- MODULE Spec2Model ----------------------------
(***************************************************************************)
(* Model of clean_images.py: a folder watcher whose handler                *)
(* (ImageMetadataCleaner) extracts an image's tag snapshot, prints a       *)
(* report, rewrites the file without metadata, restores its modification   *)
(* time and remembers the path in processed_files.                         *)
(*                                                                         *)
(* Python strings that the code inspects (tag names, file names) are       *)
(* sequences of one-character strings, so that suffix extraction,          *)
(* lower-casing, substring search and sorting are computed as the code     *)
(* computes them.                                                          *)
(***************************************************************************)
EXTENDS Integers, Sequences, FiniteSets, TLC

(***************************************************************************)
(* Bounds of the model.                                                    *)
(***************************************************************************)
\* number of file-system events the environment produces in one run
MaxEvents == 2
\* number of notifications that may wait in the observer's queue
MaxQueue == 2

(***************************************************************************)
(* Characters and strings.                                                 *)
(***************************************************************************)
\* the characters used by the modelled strings, in code-point order
Alphabet ==
    <<" ", "#", ".", "0", "1", "2", "3", "4", "5", "6", "7", "8", "9",
      "A", "B", "C", "D", "E", "F", "G", "H", "I", "J", "K", "L", "M",
      "N", "O", "P", "Q", "R", "S", "T", "U", "V", "W", "X", "Y", "Z",
      "a", "b", "c", "d", "e", "f", "g", "h", "i", "j", "k", "l", "m",
      "n", "o", "p", "q", "r", "s", "t", "u", "v", "w", "x", "y", "z">>

\* the letters str.lower() changes, and what it changes them to
UpperCase ==
    <<"A", "B", "C", "D", "E", "F", "G", "H", "I", "J", "K", "L", "M",
      "N", "O", "P", "Q", "R", "S", "T", "U", "V", "W", "X", "Y", "Z">>
LowerCase ==
    <<"a", "b", "c", "d", "e", "f", "g", "h", "i", "j", "k", "l", "m",
      "n", "o", "p", "q", "r", "s", "t", "u", "v", "w", "x", "y", "z">>

\* the elements of a sequence
Range(seq) == {seq[i] : i \in 1..Len(seq)}

\* position of an element in a sequence, 0 if it is not in it
IndexOf(seq, c) ==
    IF \E i \in 1..Len(seq) : seq[i] = c
    THEN CHOOSE i \in 1..Len(seq) : seq[i] = c
    ELSE 0

Chars == Range(Alphabet)

\* position of a character in code-point order
Ord == [c \in Chars |-> IndexOf(Alphabet, c)]

\* the lower-case letter at a position of UpperCase; c itself at position 0
LowerAt(i, c) == IF i = 0 THEN c ELSE LowerCase[i]

\* str.lower() on one character
LowerChar == [c \in Chars |-> LowerAt(IndexOf(UpperCase, c), c)]

\* str.lower()
Lower(s) == [i \in 1..Len(s) |-> LowerChar[s[i]]]

\* the Python test  sub in s  on strings
Contains(sub, s) ==
    \E i \in 0..(Len(s) - Len(sub)) :
        \A j \in 1..Len(sub) : s[i + j] = sub[j]

\* the Python comparison  a < b  on strings (lexicographic by code point)
StrLess(a, b) ==
    \E i \in 1..(Len(a) + 1) :
        /\ i <= Len(b)
        /\ \A j \in 1..(i - 1) : a[j] = b[j]
        /\ \/ i = Len(a) + 1
           \/ Ord[a[i]] < Ord[b[i]]

(***************************************************************************)
(* Dictionary keys.  A key of a snapshot is a tag name (str) or, for a tag *)
(* id that TAGS does not know, the raw integer id.                         *)
(***************************************************************************)
StrKey(s) == [t |-> "str", s |-> s, n |-> 0]
IntKey(n) == [t |-> "int", s |-> << >>, n |-> n]
NoKey == [t |-> "none", s |-> << >>, n |-> 0]

\* a stored value: its kind and the number the kind carries (0 if none);
\* sub is the set of sub-keys of a nested GPS mapping
Val(k, n) == [k |-> k, n |-> n, sub |-> {}]
GpsVal(sub) == [k |-> "gpsdict", n |-> 0, sub |-> sub]

\* dict assignment  md[k] = v
Put(md, k, v) == [x \in (DOMAIN md) \cup {k} |-> IF x = k THEN v ELSE md[x]]

\* the empty dict
EmptyDict == << >>

(***************************************************************************)
(* Names.                                                                  *)
(***************************************************************************)
nImageWidth == <<"I", "m", "a", "g", "e", "W", "i", "d", "t", "h">>
nMake == <<"M", "a", "k", "e">>
nXResolution == <<"X", "R", "e", "s", "o", "l", "u", "t", "i", "o", "n">>
nArtist == <<"A", "r", "t", "i", "s", "t">>
nGPSInfo == <<"G", "P", "S", "I", "n", "f", "o">>
nMakerNote == <<"M", "a", "k", "e", "r", "N", "o", "t", "e">>
nBodySerialNumber ==
    <<"B", "o", "d", "y", "S", "e", "r", "i", "a", "l", "N", "u", "m", "b", "e", "r">>
nGPSLatitudeRef ==
    <<"G", "P", "S", "L", "a", "t", "i", "t", "u", "d", "e", "R", "e", "f">>
nGPSLatitude == <<"G", "P", "S", "L", "a", "t", "i", "t", "u", "d", "e">>
nImageFormat == <<"I", "m", "a", "g", "e", " ", "F", "o", "r", "m", "a", "t">>
nImageMode == <<"I", "m", "a", "g", "e", " ", "M", "o", "d", "e">>
nImageSize == <<"I", "m", "a", "g", "e", " ", "S", "i", "z", "e">>
nError == <<"E", "r", "r", "o", "r">>
nSerial == <<"s", "e", "r", "i", "a", "l">>

\* PIL.ExifTags.TAGS restricted to the tag ids the model's images carry
TAGS ==
    [id \in {256, 271, 282, 315, 34853, 37500, 42033} |->
        CASE id = 256 -> nImageWidth
          [] id = 271 -> nMake
          [] id = 282 -> nXResolution
          [] id = 315 -> nArtist
          [] id = 34853 -> nGPSInfo
          [] id = 37500 -> nMakerNote
          [] id = 42033 -> nBodySerialNumber]

\* PIL.ExifTags.GPSTAGS restricted to the GPS ids the model's images carry
GPSTAGS ==
    [id \in {1, 2} |->
        CASE id = 1 -> nGPSLatitudeRef
          [] id = 2 -> nGPSLatitude]

\* TAGS.get(tag_id, tag_id)
TagName(id) == IF id \in DOMAIN TAGS THEN StrKey(TAGS[id]) ELSE IntKey(id)

\* GPSTAGS.get(gps_tag_id, gps_tag_id)
GpsTagName(id) == IF id \in DOMAIN GPSTAGS THEN StrKey(GPSTAGS[id]) ELSE IntKey(id)

\* the nested mapping built from a GPS sub-table: its resolved sub-keys
GpsData(ids) == GpsVal({GpsTagName(i) : i \in ids})

(***************************************************************************)
(* get_metadata.  An image is a record                                     *)
(*   st     : "ok", "truncated" (header readable, pixel data not),         *)
(*            "garbage" (Image.open raises) or "absent" (no such file)     *)
(*   format : container format of the content                              *)
(*   mode   : colour mode                                                  *)
(*   exif   : the primary tag table in iteration order; an entry is        *)
(*            [id, k, n, sub, bad]: tag id, kind of the raw value          *)
(*            ("int", "bytes", "str", "tuple", "dict"), its number (the    *)
(*            integer, or the byte length), the GPS ids of a dict, and     *)
(*            whether reading the entry's value raises                     *)
(*   legacy : what img._getexif() gives for the GPS tag: "dict", "none"    *)
(*            or "attrerror" (the image class has no _getexif)             *)
(*   lsub   : the GPS ids of the legacy sub-table                          *)
(***************************************************************************)
\* the tag id that resolves to GPSInfo, or 0 for None (lines 65-69)
GpsTagId(exif) ==
    IF \E i \in 1..Len(exif) : TagName(exif[i].id) = StrKey(nGPSInfo)
    THEN exif[CHOOSE i \in 1..Len(exif) :
                 /\ TagName(exif[i].id) = StrKey(nGPSInfo)
                 /\ \A j \in 1..(i - 1) : TagName(exif[j].id) # StrKey(nGPSInfo)].id
    ELSE 0

\* the entry of a tag id in the table
EntryOf(exif, id) == exif[CHOOSE i \in 1..Len(exif) : exif[i].id = id]

\* lines 73-88: the fallback through _getexif() for the entry e of the GPS
\* tag; [md, resolved, raised]
ResolveGpsEntry(img, e) ==
    IF e.bad
    THEN [md |-> EmptyDict, resolved |-> FALSE, raised |-> TRUE]
    ELSE IF e.k = "int" /\ img.legacy = "dict"
         THEN [md |-> Put(EmptyDict, StrKey(nGPSInfo), GpsData(img.lsub)),
               resolved |-> TRUE, raised |-> FALSE]
         ELSE [md |-> EmptyDict, resolved |-> FALSE, raised |-> FALSE]

\* line 72: nothing to resolve when no tag id resolves to GPSInfo
ResolveGpsAt(img, gid) ==
    IF gid = 0
    THEN [md |-> EmptyDict, resolved |-> FALSE, raised |-> FALSE]
    ELSE ResolveGpsEntry(img, EntryOf(img.exif, gid))

\* lines 64-88; [md, resolved, raised]
ResolveGps(img) == ResolveGpsAt(img, GpsTagId(img.exif))

\* lines 95-130: what an entry stores under its resolved name tag
StoreAs(md, e, resolved, tag) ==
    IF tag = StrKey(nGPSInfo) /\ resolved
    THEN md
    ELSE IF tag = StrKey(nGPSInfo) /\ e.k = "dict"
         THEN Put(md, tag, GpsData(e.sub))
         ELSE IF tag = StrKey(nGPSInfo) /\ e.k = "int"
              THEN Put(md, tag, Val("offsetnote", e.n))
              ELSE IF tag = StrKey(nMakerNote)
                   THEN IF e.k = "bytes"
                        THEN Put(md, tag, Val("makerlen", e.n))
                        ELSE Put(md, tag, Val("makergeneric", 0))
                   ELSE IF e.k = "bytes"
                        THEN Put(md, tag, Val("text", 0))
                        ELSE IF e.k = "tuple"
                             THEN Put(md, tag, Val("text", 0))
                             ELSE Put(md, tag, Val(e.k, e.n))

\* lines 93-130: what one entry of the tag table stores
StoreTag(md, e, resolved) == StoreAs(md, e, resolved, TagName(e.id))

RECURSIVE ProcessTags(_, _, _, _)
\* lines 91-130: the loop over exifdata.items(); [md, raised]
ProcessTags(exif, i, md, resolved) ==
    IF i > Len(exif)
    THEN [md |-> md, raised |-> FALSE]
    ELSE IF exif[i].bad
         THEN [md |-> md, raised |-> TRUE]
         ELSE ProcessTags(exif, i + 1, StoreTag(md, exif[i], resolved), resolved)

\* lines 133-135
Descriptive(md, img) ==
    Put(Put(Put(md, StrKey(nImageFormat), Val(img.format, 0)),
            StrKey(nImageMode), Val(img.mode, 0)),
        StrKey(nImageSize), Val("size", 0))

\* a variant that drops what was stored before the exception
WithError_Collapse(md) == Put(EmptyDict, StrKey(nError), Val("errmsg", 0))

\* line 137
WithError(md) == Put(md, StrKey(nError), Val("errmsg", 0))

\* lines 132-137, r being what the loop over the tags left
AfterLoop(img, r) ==
    IF r.raised
    THEN WithError(r.md)
    ELSE Descriptive(r.md, img)

\* lines 90-137, g being what the fallback left
AfterFallback(img, g) ==
    IF g.raised
    THEN WithError(g.md)
    ELSE AfterLoop(img, ProcessTags(img.exif, 1, g.md, g.resolved))

\* get_metadata (lines 51-139)
get_metadata(img) ==
    IF img.st \in {"absent", "garbage"}
    THEN WithError(EmptyDict)
    ELSE AfterFallback(img, ResolveGps(img))

(***************************************************************************)
(* display_metadata.  A printed line is a record: its kind, the report     *)
(* label, the key it shows, the marker in front of the key ("lock",        *)
(* "blank" or "none") and the note behind the value ("serial",             *)
(* "sensitive" or "none").                                                 *)
(***************************************************************************)
Line(kind, label, key, marker, note) ==
    [kind |-> kind, label |-> label, key |-> key, marker |-> marker, note |-> note]

\* lines 148-155
sensitive_fields ==
    {<<"S", "e", "r", "i", "a", "l", "N", "u", "m", "b", "e", "r">>,
     <<"B", "o", "d", "y", "S", "e", "r", "i", "a", "l", "N", "u", "m", "b", "e", "r">>,
     <<"L", "e", "n", "s", "S", "e", "r", "i", "a", "l", "N", "u", "m", "b", "e", "r">>,
     <<"C", "a", "m", "e", "r", "a", "S", "e", "r", "i", "a", "l", "N", "u", "m", "b", "e", "r">>,
     <<"I", "n", "t", "e", "r", "n", "a", "l", "S", "e", "r", "i", "a", "l", "N", "u", "m", "b", "e", "r">>,
     <<"S", "e", "r", "i", "a", "l", " ", "N", "u", "m", "b", "e", "r">>,
     <<"M", "a", "k", "e">>,
     <<"M", "o", "d", "e", "l">>,
     <<"S", "o", "f", "t", "w", "a", "r", "e">>,
     <<"A", "r", "t", "i", "s", "t">>,
     <<"C", "o", "p", "y", "r", "i", "g", "h", "t">>,
     <<"O", "w", "n", "e", "r", "N", "a", "m", "e">>,
     <<"G", "P", "S", "I", "n", "f", "o">>,
     <<"G", "P", "S", "L", "a", "t", "i", "t", "u", "d", "e">>,
     <<"G", "P", "S", "L", "o", "n", "g", "i", "t", "u", "d", "e">>,
     <<"G", "P", "S", "A", "l", "t", "i", "t", "u", "d", "e">>,
     <<"D", "a", "t", "e", "T", "i", "m", "e">>,
     <<"D", "a", "t", "e", "T", "i", "m", "e", "O", "r", "i", "g", "i", "n", "a", "l">>,
     <<"D", "a", "t", "e", "T", "i", "m", "e", "D", "i", "g", "i", "t", "i", "z", "e", "d">>,
     <<"M", "a", "k", "e", "r", "N", "o", "t", "e">>,
     <<"U", "s", "e", "r", "C", "o", "m", "m", "e", "n", "t">>,
     <<"I", "m", "a", "g", "e", "U", "n", "i", "q", "u", "e", "I", "D">>,
     <<"D", "o", "c", "u", "m", "e", "n", "t", "N", "a", "m", "e">>}

\* line 160: the keys the report loop skips
DescriptiveKeys == {StrKey(nImageFormat), StrKey(nImageMode), StrKey(nImageSize)}

\* line 164
is_sensitive(key) ==
    \E sensitive \in sensitive_fields : Contains(Lower(sensitive), Lower(key.s))

\* a variant that looks for "serial" without lower-casing the key
is_serial_CaseSensitive(key) == Contains(nSerial, key.s)

\* line 179
is_serial(key) == Contains(nSerial, Lower(key.s))

\* the order sorted() puts two keys of the same type in
KeyLess(a, b) == IF a.t = "int" THEN a.n < b.n ELSE StrLess(a.s, b.s)

\* sorted() raises TypeError when it has to compare an int with a str
Mixed(S) == \E a, b \in S : a.t # b.t

RECURSIVE Sorted(_)
\* sorted() on keys of one type
Sorted(S) ==
    IF S = {}
    THEN << >>
    ELSE LET m == CHOOSE x \in S : \A y \in S \ {x} : KeyLess(x, y)
         IN  <<m>> \o Sorted(S \ {m})

\* lines 170-171: the lines of the GPS sub-keys
GpsLines(keys, label) ==
    [i \in 1..Len(keys) |-> Line("gpsitem", label, keys[i], "none", "none")]

\* line 165
Marker(sensitive) == IF sensitive THEN "lock" ELSE "blank"

\* lines 168-184: the lines of an entry, sensitive being the value of
\* is_sensitive for its key; [lines, raised]
PrintEntry(key, value, label, sensitive) ==
    IF key = StrKey(nGPSInfo) /\ value.k = "gpsdict"
    THEN IF Mixed(value.sub)
         THEN [lines |-> <<Line("gpshdr", label, key, Marker(sensitive), "none")>>,
               raised |-> TRUE]
         ELSE [lines |-> <<Line("gpshdr", label, key, Marker(sensitive), "none")>>
                           \o GpsLines(Sorted(value.sub), label),
               raised |-> FALSE]
    ELSE IF is_serial(key)
         THEN [lines |-> <<Line("tag", label, key, Marker(sensitive), "serial")>>,
               raised |-> FALSE]
         ELSE IF sensitive
              THEN [lines |-> <<Line("tag", label, key, Marker(sensitive), "sensitive")>>,
                    raised |-> FALSE]
              ELSE [lines |-> <<Line("tag", label, key, "none", "none")>>,
                    raised |-> FALSE]

\* lines 159-184: the lines one visited entry prints; [lines, raised]
EntryLines(key, value, label) ==
    IF key \in DescriptiveKeys
    THEN [lines |-> << >>, raised |-> FALSE]
    ELSE IF key.t = "int"
         THEN [lines |-> << >>, raised |-> TRUE]
         ELSE PrintEntry(key, value, label, is_sensitive(key))

\* the lines printed so far followed by what the rest of a report printed
Prepend(lines, r) == [lines |-> lines \o r.lines, raised |-> r.raised]

RECURSIVE ReportLoop(_, _, _, _)
\* lines 158-184: the rest of the loop after the entry at i printed e
ReportFrom(md, keys, i, label, e) ==
    IF e.raised
    THEN e
    ELSE Prepend(e.lines, ReportLoop(md, keys, i + 1, label))

\* lines 158-184: the loop over the sorted entries; [lines, raised]
ReportLoop(md, keys, i, label) ==
    IF i > Len(keys)
    THEN [lines |-> << >>, raised |-> FALSE]
    ELSE ReportFrom(md, keys, i, label, EntryLines(keys[i], md[keys[i]], label))

\* line 157
Header(label) == <<Line("header", label, NoKey, "none", "none")>>

\* a variant that prints the entries without the header line
display_metadata_NoHeader(md, label) ==
    IF DOMAIN md = {}
    THEN [lines |-> <<Line("nometa", label, NoKey, "none", "none")>>, raised |-> FALSE]
    ELSE IF Mixed(DOMAIN md)
         THEN [lines |-> << >>, raised |-> TRUE]
         ELSE ReportLoop(md, Sorted(DOMAIN md), 1, label)

\* display_metadata (lines 141-184); [lines, raised]
display_metadata(md, label) ==
    IF DOMAIN md = {}
    THEN [lines |-> <<Line("nometa", label, NoKey, "none", "none")>>, raised |-> FALSE]
    ELSE IF Mixed(DOMAIN md)
         THEN [lines |-> Header(label), raised |-> TRUE]
         ELSE Prepend(Header(label), ReportLoop(md, Sorted(DOMAIN md), 1, label))

(***************************************************************************)
(* Paths and images of the model.                                          *)
(***************************************************************************)
pathA == <<"a", ".", "J", "P", "G">>
pathB == <<"b", ".", "p", "n", "g">>
pathC == <<"c", ".", "t", "i", "f">>
pathD == <<"d", ".", "t", "x", "t">>
Paths == {pathA, pathB, pathC, pathD}

\* one entry of a tag table
Tag(id, k, n) == [id |-> id, k |-> k, n |-> n, sub |-> {}, bad |-> FALSE]
BadTag(id) == [id |-> id, k |-> "str", n |-> 0, sub |-> {}, bad |-> TRUE]
GpsDictTag(ids) == [id |-> 34853, k |-> "dict", n |-> 0, sub |-> ids, bad |-> FALSE]

Image(st, format, mode, exif, legacy, lsub) ==
    [st |-> st, format |-> format, mode |-> mode, exif |-> exif,
     legacy |-> legacy, lsub |-> lsub]

\* no file at the path
Absent == Image("absent", "none", "none", << >>, "none", {})
\* bytes that are no image (also what an interrupted write leaves)
Garbage == Image("garbage", "none", "none", << >>, "none", {})
\* a camera JPEG: maker, GPS pointer that _getexif() resolves, serial, MakerNote
imgCamera ==
    Image("ok", "JPEG", "RGB",
          <<Tag(271, "str", 0), Tag(34853, "int", 100),
            Tag(42033, "str", 0), Tag(37500, "bytes", 64)>>,
          "dict", {1, 2})
\* a JPEG with a tag id that TAGS does not know
imgPrivateTag ==
    Image("ok", "JPEG", "RGB", <<Tag(315, "str", 0), Tag(65000, "bytes", 8)>>,
          "none", {})
\* a greyscale JPEG whose second tag cannot be read
imgBadTag ==
    Image("ok", "JPEG", "L", <<Tag(315, "str", 0), BadTag(271)>>, "none", {})
\* a PNG with an alpha channel and no EXIF
imgAlpha == Image("ok", "PNG", "RGBA", << >>, "attrerror", {})
\* an RGB TIFF: its directory holds the baseline tags, a resolution and an artist
imgTiff ==
    Image("ok", "TIFF", "RGB",
          <<Tag(256, "int", 640), Tag(282, "tuple", 0), Tag(315, "str", 0)>>,
          "attrerror", {})
\* a TIFF whose pixel data is cut short, with an unresolved GPS pointer
imgTruncated ==
    Image("truncated", "TIFF", "L",
          <<Tag(256, "int", 640), Tag(34853, "int", 100)>>, "attrerror", {})
\* a JPEG whose GPS tag already is a mapping, one sub-id unknown to GPSTAGS
imgGpsDict ==
    Image("ok", "JPEG", "RGB", <<GpsDictTag({1, 99}), Tag(37500, "str", 0)>>,
          "none", {})

\* the contents the environment writes at each path
Contents(p) ==
    CASE p = pathA -> {imgCamera, imgPrivateTag, imgBadTag, imgGpsDict}
      [] p = pathB -> {imgAlpha, Garbage}
      [] p = pathC -> {imgTiff, imgTruncated}
      [] p = pathD -> {Garbage}

(***************************************************************************)
(* clean_image_metadata.                                                   *)
(***************************************************************************)
\* line 41
SUPPORTED_FORMATS ==
    {<<".", "j", "p", "g">>, <<".", "j", "p", "e", "g">>, <<".", "p", "n", "g">>,
     <<".", "t", "i", "f", "f">>, <<".", "t", "i", "f">>, <<".", "b", "m", "p">>,
     <<".", "w", "e", "b", "p">>}

\* pathlib's suffix: from the last dot of the name, unless that dot is the
\* first or the last character
Suffix(name) ==
    LET dots == {i \in 1..Len(name) : name[i] = "."} IN
    IF dots = {}
    THEN << >>
    ELSE LET i == CHOOSE d \in dots : \A e \in dots : e <= d IN
         IF i > 1 /\ i < Len(name)
         THEN SubSeq(name, i, Len(name))
         ELSE << >>

\* a variant that accepts every file that has an extension
is_image_file_AnySuffix(path) == Suffix(path) # << >>

\* is_image_file (lines 47-49)
is_image_file(path) == Lower(Suffix(path)) \in SUPPORTED_FORMATS

\* a variant without the guard
AlreadyProcessed_Never(path, processed) == FALSE

\* line 198
AlreadyProcessed(path, processed) == path \in processed

\* a variant that forgets the paths marked earlier
MarkProcessed_Replace(processed, path) == {path}

\* line 246
MarkProcessed(processed, path) == processed \cup {path}

\* lines 215-223: the mode of the image that is saved
ConvertedMode(mode) ==
    IF mode \in {"RGBA", "LA", "P"}
    THEN "RGB"
    ELSE IF mode # "RGB" THEN "RGB" ELSE mode

\* lines 227-236: the format the extension selects; "none" when no branch of
\* the chain matches and nothing is saved
FormatOf(ext) ==
    CASE ext \in {<<".", "j", "p", "g">>, <<".", "j", "p", "e", "g">>} -> "JPEG"
      [] ext = <<".", "p", "n", "g">> -> "PNG"
      [] ext \in {<<".", "t", "i", "f", "f">>, <<".", "t", "i", "f">>} -> "TIFF"
      [] ext = <<".", "w", "e", "b", "p">> -> "WEBP"
      [] ext = <<".", "b", "m", "p">> -> "BMP"
      [] OTHER -> "none"

\* the format image_path.suffix.lower() selects
SaveFormat(path) == FormatOf(Lower(Suffix(path)))

\* the tag ids the TIFF encoder copies from an image opened from a TIFF
TiffPreserved == {282}

\* the directory entry every TIFF file has (the encoder writes it)
TiffBaseline == <<Tag(256, "int", 640)>>

\* the tag table of the file that img.save writes in a format: no exif
\* argument is passed, so JPEG, PNG, WEBP and BMP files get none; a TIFF file
\* gets the encoder's directory, and if the saved object still is the opened
\* TIFF (no conversion replaced it) the tags the encoder preserves
SavedExif(format, img) ==
    IF format = "TIFF"
    THEN IF img.format = "TIFF" /\ img.mode = "RGB"
         THEN TiffBaseline \o SelectSeq(img.exif, LAMBDA e : e.id \in TiffPreserved)
         ELSE TiffBaseline
    ELSE << >>

\* the file that saving img in a format writes
SavedAs(format, img) ==
    IF format = "none"
    THEN img
    ELSE Image("ok", format, ConvertedMode(img.mode), SavedExif(format, img),
               IF format = "JPEG" THEN "none" ELSE "attrerror", {})

\* the file that lines 212-236 write
SavedImage(path, img) == SavedAs(SaveFormat(path), img)

\* a variant that leaves the time of the rewrite
Utime_Skipped(mt, path, t) == mt

\* line 239: os.utime(image_path, (original_mtime, original_mtime))
Utime(mt, path, t) == [mt EXCEPT ![path] = t]

\* the statements of lines 190-251 that can raise
RaisePoints ==
    {"display_before", "getmtime", "open", "load", "save", "utime", "display_after"}

\* a variant whose try block ends after the save
InTry_UntilSave(point) == point \in RaisePoints \ {"utime", "display_after"}

\* lines 190 and 252: the statements the try block encloses
InTry(point) == point \in RaisePoints

BEFORE == "Metadata BEFORE cleaning"
AFTER == "Metadata AFTER cleaning"

RECURSIVE SaveClosure(_)
\* S2 if it adds nothing to S, else the closure of S2
Grow(S, S2) == IF S2 = S THEN S ELSE SaveClosure(S2)

\* a set of images together with every file that saving them can write
SaveClosure(S) ==
    Grow(S, S \cup {SavedImage(p, img) :
                       p \in {q \in Paths : is_image_file(q)},
                       img \in {i \in S : i.st = "ok"}})

\* every image a file of the model can hold
ModelImages == SaveClosure({Absent, Garbage} \cup UNION {Contents(p) : p \in Paths})

\* get_metadata and display_metadata, tabulated over the images of the model
Extracted == [img \in ModelImages |-> get_metadata(img)]
Displayed ==
    [img \in ModelImages |->
        [label \in {BEFORE, AFTER} |-> display_metadata(Extracted[img], label)]]

\* what one call leaves behind: return value, streams, files, processed set
Result(path, ret, noop, point, out, F, M, T, P, before, hasBefore, after, hasAfter, captured) ==
    [path |-> path, ret |-> ret, noop |-> noop, point |-> point,
     escaped |-> (point # "none" /\ ~InTry(point)),
     out |-> out,
     err |-> IF point # "none" /\ InTry(point) THEN <<path>> ELSE << >>,
     files |-> F, mtime |-> M, now |-> T, processed |-> P,
     before |-> before, hasBefore |-> hasBefore,
     after |-> after, hasAfter |-> hasAfter, captured |-> captured]

\* lines 195 and 199: return False before anything is printed
NoOp(path, F, M, T, P) ==
    Result(path, FALSE, TRUE, "none", << >>, F, M, T, P,
           EmptyDict, FALSE, EmptyDict, FALSE, -1)

\* lines 201-202 and 248-249
Banner ==
    <<Line("processing", "", NoKey, "none", "none"),
      Line("rule", "", NoKey, "none", "none")>>
Footer ==
    <<Line("cleaned", "", NoKey, "none", "none"),
      Line("rule", "", NoKey, "none", "none")>>

\* a call in which the statement at point raised, after the before snapshot
Raised(path, point, out, F, M, T, P, before, after, hasAfter, captured) ==
    Result(path, FALSE, FALSE, point, out, F, M, T, P,
           before, TRUE, after, hasAfter, captured)

\* lines 241-250: the after report (d2) of the after snapshot, the mark and
\* the return
ReportAfter(path, out1, F2, M3, T, P, before, original_mtime, after, d2) ==
    IF d2.raised
    THEN Raised(path, "display_after", out1 \o d2.lines, F2, M3, T + 1, P,
                before, after, TRUE, original_mtime)
    ELSE Result(path, TRUE, FALSE, "none", out1 \o d2.lines \o Footer,
                F2, M3, T + 1, MarkProcessed(P, path),
                before, TRUE, after, TRUE, original_mtime)

\* lines 227-243: the save in the format of the extension, which writes the
\* file saved, and the restore of the modification time
SaveAndRestore(path, fault, F, M, T, P, before, out1, original_mtime, format, saved) ==
    IF fault = "save" /\ format # "none"
    THEN Raised(path, "save", out1, [F EXCEPT ![path] = Garbage],
                [M EXCEPT ![path] = T], T + 1, P,
                before, EmptyDict, FALSE, original_mtime)
    ELSE LET F2 == [F EXCEPT ![path] = saved]
             M2 == IF format = "none" THEN M ELSE [M EXCEPT ![path] = T]
         IN  IF fault = "utime"
             THEN Raised(path, "utime", out1, F2, M2, T + 1, P,
                         before, EmptyDict, FALSE, original_mtime)
             ELSE ReportAfter(path, out1, F2, Utime(M2, path, original_mtime), T, P,
                              before, original_mtime,
                              Extracted[saved], Displayed[saved][AFTER])

\* lines 209-236: the capture of the modification time, the open and the
\* decode of the image
OpenImage(path, fault, F, M, T, P, img, before, out1) ==
    IF img.st = "absent"
    THEN Raised(path, "getmtime", out1, F, M, T, P, before, EmptyDict, FALSE, -1)
    ELSE IF img.st = "garbage"
    THEN Raised(path, "open", out1, F, M, T, P, before, EmptyDict, FALSE, M[path])
    ELSE IF img.st = "truncated"
    THEN Raised(path, "load", out1, F, M, T, P, before, EmptyDict, FALSE, M[path])
    ELSE SaveAndRestore(path, fault, F, M, T, P, before, out1, M[path],
                        SaveFormat(path), SavedImage(path, img))

\* lines 201-206: the banner and the before report (d1) of the before snapshot
ReportBefore(path, fault, F, M, T, P, img, before, d1) ==
    IF d1.raised
    THEN Raised(path, "display_before", Banner \o d1.lines, F, M, T, P,
                before, EmptyDict, FALSE, -1)
    ELSE OpenImage(path, fault, F, M, T, P, img, before, Banner \o d1.lines)

\* clean_image_metadata (lines 186-254) on the file system (F, M), the clock T
\* and the processed set P; fault is what the operating system makes fail
clean_image_metadata(path, fault, F, M, T, P) ==
    IF ~is_image_file(path)
    THEN NoOp(path, F, M, T, P)
    ELSE IF AlreadyProcessed(path, P)
    THEN NoOp(path, F, M, T, P)
    ELSE ReportBefore(path, fault, F, M, T, P, F[path],
                      Extracted[F[path]], Displayed[F[path]][BEFORE])

(***************************************************************************)
(* The watcher.                                                            *)
(***************************************************************************)
VARIABLES
    files,            \* path -> image: the watched folder
    mtime,            \* path -> modification time
    now,              \* the clock of the file system
    processed_files,  \* self.processed_files
    queue,            \* notifications the observer has not dispatched yet
    events,           \* number of file-system events produced so far
    alive,            \* the observer's dispatch thread is running
    last,             \* the latest call of clean_image_metadata
    prev,             \* the call before it: [called, path, ret, noop, point]
    successes,        \* path -> number of calls that returned True
    metadata_arg,     \* the dict of a direct call of display_metadata
    printed           \* what that call printed: [called, label, lines, raised]

watcherVars ==
    <<files, mtime, now, processed_files, queue, events, alive, last, prev, successes>>
displayVars == <<metadata_arg, printed>>
vars == <<watcherVars, displayVars>>

\* what the operating system may make fail during one call
Faults == {"none", "save", "utime"}

\* a directory inside the watched folder
pathDir == <<"s", "u", "b">>

Event(type, is_directory, src_path, dest_path) ==
    [type |-> type, is_directory |-> is_directory,
     src_path |-> src_path, dest_path |-> dest_path]

\* the record of a call: what it was given and what it did
CallRecord(called, r, processedBefore, fileBefore, mtimeBefore) ==
    [called |-> called, path |-> r.path, ret |-> r.ret, noop |-> r.noop,
     point |-> r.point, escaped |-> r.escaped, out |-> r.out, err |-> r.err,
     before |-> r.before, hasBefore |-> r.hasBefore,
     after |-> r.after, hasAfter |-> r.hasAfter, captured |-> r.captured,
     processedBefore |-> processedBefore, fileBefore |-> fileBefore,
     mtimeBefore |-> mtimeBefore, mtimeAfter |-> r.mtime[r.path],
     fileAfter |-> r.files[r.path]]

NoCall ==
    CallRecord(FALSE, NoOp(pathD, [p \in Paths |-> Absent], [p \in Paths |-> 0], 1, {}),
               {}, Absent, 0)

NotPrinted == [called |-> FALSE, label |-> BEFORE, lines |-> << >>, raised |-> FALSE]

\* __init__ (lines 43-45) and an empty folder
Init ==
    /\ files = [p \in Paths |-> Absent]
    /\ mtime = [p \in Paths |-> 0]
    /\ now = 1
    /\ processed_files = {}
    /\ queue = << >>
    /\ events = 0
    /\ alive = TRUE
    /\ last = NoCall
    /\ prev = [called |-> FALSE, path |-> pathD, ret |-> FALSE, noop |-> FALSE,
               point |-> "none"]
    /\ successes = [p \in Paths |-> 0]
    /\ metadata_arg = EmptyDict
    /\ printed = NotPrinted

\* a program writes a new file into the folder
CreateFile(p, img) ==
    /\ events < MaxEvents
    /\ Len(queue) < MaxQueue
    /\ files' = [files EXCEPT ![p] = img]
    /\ mtime' = [mtime EXCEPT ![p] = now]
    /\ now' = now + 1
    /\ queue' = Append(queue, Event("created", FALSE, p, p))
    /\ events' = events + 1
    /\ UNCHANGED <<processed_files, alive, last, prev, successes, displayVars>>

\* the renames the environment performs: a download that gets its final
\* name, and an image that is given another extension
Renames == {<<pathD, pathB>>, <<pathA, pathD>>, <<pathB, pathC>>}

\* a file of the folder is renamed
MoveFile(p, q) ==
    /\ events < MaxEvents
    /\ Len(queue) < MaxQueue
    /\ <<p, q>> \in Renames
    /\ files[p].st # "absent"
    /\ files' = [files EXCEPT ![q] = files[p], ![p] = Absent]
    /\ mtime' = [mtime EXCEPT ![q] = mtime[p], ![p] = 0]
    /\ queue' = Append(queue, Event("moved", FALSE, p, q))
    /\ events' = events + 1
    /\ UNCHANGED <<now, processed_files, alive, last, prev, successes, displayVars>>

\* a directory is created in the folder, or renamed
DirEvent(type) ==
    /\ events < MaxEvents
    /\ Len(queue) < MaxQueue
    /\ queue' = Append(queue, Event(type, TRUE, pathDir, pathDir))
    /\ events' = events + 1
    /\ UNCHANGED <<files, mtime, now, processed_files, alive, last, prev, successes, displayVars>>

\* the observer reports the creation of a file a second time
DuplicateNotify(p) ==
    /\ events < MaxEvents
    /\ Len(queue) < MaxQueue
    /\ files[p].st # "absent"
    /\ queue' = Append(queue, Event("created", FALSE, p, p))
    /\ events' = events + 1
    /\ UNCHANGED <<files, mtime, now, processed_files, alive, last, prev, successes, displayVars>>

\* the effect of one call of clean_image_metadata on the state
Call(path, fault) ==
    \E r \in {clean_image_metadata(path, fault, files, mtime, now, processed_files)} :
    /\ files' = r.files
    /\ mtime' = r.mtime
    /\ now' = r.now
    /\ processed_files' = r.processed
    /\ alive' = (alive /\ ~r.escaped)
    /\ last' = CallRecord(TRUE, r, processed_files, files[path], mtime[path])
    /\ prev' = [called |-> last.called, path |-> last.path,
                ret |-> last.ret, noop |-> last.noop, point |-> last.point]
    /\ successes' = IF r.ret
                    THEN [successes EXCEPT ![path] = successes[path] + 1]
                    ELSE successes

\* on_created (lines 256-261)
on_created(fault) ==
    /\ alive
    /\ queue # << >>
    /\ Head(queue).type = "created"
    /\ queue' = Tail(queue)
    /\ UNCHANGED <<events, displayVars>>
    /\ IF ~Head(queue).is_directory
       THEN Call(Head(queue).src_path, fault)
       ELSE UNCHANGED <<files, mtime, now, processed_files, alive, last, prev, successes>>

\* on_moved (lines 263-268)
on_moved(fault) ==
    /\ alive
    /\ queue # << >>
    /\ Head(queue).type = "moved"
    /\ queue' = Tail(queue)
    /\ UNCHANGED <<events, displayVars>>
    /\ IF ~Head(queue).is_directory
       THEN Call(Head(queue).dest_path, fault)
       ELSE UNCHANGED <<files, mtime, now, processed_files, alive, last, prev, successes>>

Next ==
    \/ \E p \in Paths : \E img \in Contents(p) : CreateFile(p, img)
    \/ \E p \in Paths : \E q \in Paths : MoveFile(p, q)
    \/ \E type \in {"created", "moved"} : DirEvent(type)
    \/ \E p \in Paths : DuplicateNotify(p)
    \/ \E fault \in Faults : on_created(fault)
    \/ \E fault \in Faults : on_moved(fault)

Spec == Init /\ [][Next]_vars

(***************************************************************************)
(* display_metadata called directly, on dicts that need not come from      *)
(* get_metadata.                                                           *)
(***************************************************************************)
nLensSerial == <<"L", "e", "n", "s", "S", "e", "r", "i", "a", "l">>
nOrientation == <<"O", "r", "i", "e", "n", "t", "a", "t", "i", "o", "n">>
nLowerCopyright == <<"c", "o", "p", "y", "r", "i", "g", "h", "t">>

\* the keys of the dicts that are displayed
DisplayKeys ==
    {StrKey(nArtist), StrKey(nBodySerialNumber), StrKey(nLensSerial),
     StrKey(nLowerCopyright), StrKey(nOrientation), StrKey(nImageSize),
     StrKey(nGPSInfo), IntKey(65000)}

\* the values a key can have in them
DisplayValues(key) ==
    IF key = StrKey(nGPSInfo)
    THEN {GpsData({1, 2}), Val("offsetnote", 100)}
    ELSE {Val("text", 0)}

\* the dicts that are displayed
DisplayDicts ==
    UNION {[K -> {GpsData({1, 2}), Val("offsetnote", 100), Val("text", 0)}] :
              K \in SUBSET DisplayKeys}

InitDisplay ==
    /\ files = [p \in Paths |-> Absent]
    /\ mtime = [p \in Paths |-> 0]
    /\ now = 1
    /\ processed_files = {}
    /\ queue = << >>
    /\ events = 0
    /\ alive = TRUE
    /\ last = NoCall
    /\ prev = [called |-> FALSE, path |-> pathD, ret |-> FALSE, noop |-> FALSE,
               point |-> "none"]
    /\ successes = [p \in Paths |-> 0]
    /\ metadata_arg \in {md \in DisplayDicts :
                             \A k \in DOMAIN md : md[k] \in DisplayValues(k)}
    /\ printed = NotPrinted

\* display_metadata(metadata, label)
Display(label) ==
    /\ ~printed.called
    /\ \E d \in {display_metadata(metadata_arg, label)} :
          printed' = [called |-> TRUE, label |-> label,
                      lines |-> d.lines, raised |-> d.raised]
    /\ UNCHANGED <<watcherVars, metadata_arg>>

NextDisplay == \E label \in {BEFORE, AFTER} : Display(label)

SpecDisplay == InitDisplay /\ [][NextDisplay]_vars

(***************************************************************************)
(* Properties.                                                             *)
(***************************************************************************)
\* some line of the report with this label was printed
HasReport(out, label) == \E i \in 1..Len(out) : out[i].label = label

\* the "No metadata found" line of the report with this label was printed
HasNoMetadataLine(out, label) ==
    \E i \in 1..Len(out) : out[i].kind = "nometa" /\ out[i].label = label

\* the latest call did nothing: False, no exception, nothing printed, nothing
\* extracted, file and processed set as they were
LastWasNoOp ==
    /\ last.ret = FALSE
    /\ last.point = "none"
    /\ ~last.escaped
    /\ last.out = << >>
    /\ last.err = << >>
    /\ ~last.hasBefore
    /\ ~last.hasAfter
    /\ last.fileAfter = last.fileBefore
    /\ last.mtimeAfter = last.mtimeBefore
    /\ processed_files = last.processedBefore

\* the latest call got past the two guards
LastProcessed == last.called /\ ~last.noop

\* C1 (as stated): of two calls in succession on the same path, the second
\* is a no-op
C1_SecondCallNoOp ==
    (last.called /\ prev.called /\ prev.path = last.path) => LastWasNoOp

\* C1 (amended): when a call on a path returned success, the next call on
\* the same path is a no-op: it returns false, reads and rewrites nothing and
\* prints no report
C1_SecondCallAfterSuccessNoOp ==
    (last.called /\ prev.called /\ prev.path = last.path /\ prev.ret) => LastWasNoOp

C1_Witness ==
    /\ last.called /\ prev.called /\ prev.path = last.path /\ prev.ret
    /\ last.fileBefore.st = "ok"
    /\ last.noop

\* C2 (as stated): every processed file produces a before report and an after
\* report, whatever the outcome
C2_BothReports ==
    LastProcessed => (HasReport(last.out, BEFORE) /\ HasReport(last.out, AFTER))

\* C2 (amended): every processed file produces a before report; the after
\* report is produced exactly when nothing raised before the second
\* extraction, so by every successful call and by no call whose strip step
\* (before-display, timestamp capture, decode, conversion, encode, timestamp
\* restore) failed
C2_BeforeAlwaysAfterOnCompletion ==
    LastProcessed =>
        /\ HasReport(last.out, BEFORE)
        /\ HasReport(last.out, AFTER) <=> last.point \in {"none", "display_after"}
        /\ last.ret => HasReport(last.out, AFTER)

C2_Witness ==
    /\ LastProcessed
    /\ last.point = "save"
    /\ HasReport(last.out, BEFORE)
    /\ ~HasReport(last.out, AFTER)

\* reading this image raises somewhere inside get_metadata
ExtractionRaises(img) ==
    \/ img.st \in {"absent", "garbage"}
    \/ \E i \in 1..Len(img.exif) : img.exif[i].bad

\* the names of the tags in front of the first unreadable entry
NamesBeforeFailure(img) ==
    IF img.st \in {"absent", "garbage"}
    THEN {}
    ELSE {TagName(img.exif[i].id) :
             i \in {j \in 1..Len(img.exif) : \A h \in 1..j : ~img.exif[h].bad}}

C4_MtimeKept == LastProcessed => last.mtimeAfter = last.mtimeBefore

\* C4 (amended): for every file that strip processes successfully, the
\* modification time after the call is the one captured before the rewrite;
\* a call that fails leaves either that time or the time of its own write
C4_MtimeKeptOnSuccess ==
    LastProcessed =>
        /\ last.ret => (last.captured = last.mtimeBefore
                        /\ last.mtimeAfter = last.captured)
        /\ ~last.ret => (\/ last.mtimeAfter = last.mtimeBefore
                         \/ last.point \in {"save", "utime"})

C4_Witness ==
    /\ LastProcessed
    /\ last.ret
    /\ last.fileAfter # last.fileBefore
    /\ last.mtimeAfter = last.mtimeBefore
    /\ last.mtimeBefore < now - 1

\* C5: after a successful strip no tag name of the pre-strip snapshot, the
\* three descriptive fields aside, is in the post-strip snapshot
C5_TagsRemoved ==
    (last.called /\ last.ret) =>
        \A k \in (DOMAIN last.before) \ DescriptiveKeys : k \notin DOMAIN last.after

\* C6: a call on a path whose extension, lower-cased, is not supported, or on
\* a path already in the processed set, is a no-op: false, no error, no
\* report, file bytes, modification time and processed set unchanged
C6_NoOpOnUnsupportedOrProcessed ==
    (/\ last.called
     /\ \/ Lower(Suffix(last.path)) \notin SUPPORTED_FORMATS
        \/ last.path \in last.processedBefore)
        => (last.noop /\ LastWasNoOp)

C6_Witness ==
    /\ last.called
    /\ Lower(Suffix(last.path)) \notin SUPPORTED_FORMATS
    /\ last.fileBefore.st # "absent"
    /\ processed_files # {}
    /\ last.noop

\* C7: for an image without EXIF tags both reports of a strip show the
\* "No metadata found" line
C7_NoMetadataFound ==
    (last.called /\ last.ret /\ last.fileBefore.exif = << >>) =>
        /\ HasNoMetadataLine(last.out, BEFORE)
        /\ HasNoMetadataLine(last.out, AFTER)

\* some handler can take the notification at the head of the queue
CanDispatch == ENABLED (\E fault \in Faults : on_created(fault) \/ on_moved(fault))

\* C8: an exception raised during strip does not leave the call: the call
\* returns False and reports the failure on the error stream, the dispatch
\* thread stays alive and a waiting notification can still be handled
C8_ExceptionsCaught ==
    /\ alive
    /\ (last.called /\ last.point # "none") =>
           (~last.escaped /\ last.ret = FALSE /\ last.err = <<last.path>>)
    /\ (last.called /\ last.point = "none") => last.err = << >>
    /\ queue # << >> => CanDispatch

C8_Witness ==
    /\ prev.called /\ prev.point = "utime"
    /\ last.called /\ last.point = "none" /\ ~last.noop

\* C9: the processed set is empty before the first call, loses no path, and
\* holds exactly the paths a call returned success for; a failed call or a
\* no-op adds nothing, and no path gets a second success
C9_ProcessedSet ==
    /\ ~last.called => processed_files = {}
    /\ last.processedBefore \subseteq processed_files
    /\ processed_files = {p \in Paths : successes[p] > 0}
    /\ (last.called /\ ~last.ret) => processed_files = last.processedBefore
    /\ (last.called /\ last.ret) =>
           processed_files = last.processedBefore \cup {last.path}
    /\ \A p \in Paths : successes[p] <= 1

C9_Witness ==
    /\ processed_files # {}
    /\ processed_files = {p \in Paths : successes[p] = 1}
    /\ last.called /\ ~last.ret /\ ~last.noop

\* the name contains the term, letter case aside
NameHasTerm(name, term) ==
    \E i \in 0..(Len(name) - Len(term)) :
        \A j \in 1..Len(term) : LowerChar[name[i + j]] = LowerChar[term[j]]

\* the annotation the classification asks for
ExpectedNote(name) ==
    IF NameHasTerm(name, nSerial)
    THEN "serial"
    ELSE IF \E term \in sensitive_fields : NameHasTerm(name, term)
         THEN "sensitive"
         ELSE "none"

\* the keys of a dict that get a line of their own
AnnotatedKeys(md) ==
    {k \in DOMAIN md :
        /\ k \notin DescriptiveKeys
        /\ ~(k = StrKey(nGPSInfo) /\ md[k].k = "gpsdict")}

\* C10: every reported tag name, the descriptive fields and a nested GPSInfo
\* aside, carries the hardware note if it contains "serial", else the
\* sensitivity note if it contains a sensitive term, else no note, letter case
\* aside; a report that did not raise has such a line for each of these names
C10_Annotations ==
    printed.called =>
        /\ \A i \in 1..Len(printed.lines) :
               printed.lines[i].kind = "tag" =>
                   /\ printed.lines[i].key \in AnnotatedKeys(metadata_arg)
                   /\ printed.lines[i].note = ExpectedNote(printed.lines[i].key.s)
        /\ ~printed.raised =>
               \A k \in AnnotatedKeys(metadata_arg) :
                   \E i \in 1..Len(printed.lines) :
                       printed.lines[i].kind = "tag" /\ printed.lines[i].key = k

C10_Witness ==
    /\ printed.called
    /\ ~printed.raised
    /\ \E i \in 1..Len(printed.lines) :
           /\ printed.lines[i].key = StrKey(nLensSerial)
           /\ printed.lines[i].note = "serial"
           /\ printed.lines[i].marker = "blank"
    /\ \E i \in 1..Len(printed.lines) :
           /\ printed.lines[i].key = StrKey(nLowerCopyright)
           /\ printed.lines[i].note = "sensitive"
    /\ \E i \in 1..Len(printed.lines) :
           /\ printed.lines[i].key = StrKey(nOrientation)
           /\ printed.lines[i].note = "none"

=============================================================================
